---- MODULE Spec2Model ----
(***************************************************************************)
(* Model of src/sample.py: the Streamlit "Phishing Email Domain Checker".  *)
(*                                                                         *)
(* Python strings that the program takes apart (the email, the domain,     *)
(* the report text) are sequences of characters; a multi-letter token such *)
(* as "com" stands for one or more ordinary characters that are neither   *)
(* "@", ".", whitespace nor a newline.  Python values whose type the code  *)
(* inspects (None, str, datetime, list) are tagged records.  The two       *)
(* libraries the script calls are modelled at the call: tldextract.extract *)
(* by its algorithm over a three-rule public suffix list, whois.whois as   *)
(* an input that returns a response object or raises.                      *)
(***************************************************************************)
EXTENDS Integers, Sequences, FiniteSets, TLC

VARIABLES
    email,        \* value of the st.text_input widget (kept by the session)
    pc,           \* "idle": script run finished; "whois": blocked in whois.whois
    page,         \* elements the current script run has written below the form
    download,     \* the st.download_button of the current run, or None
    domain,       \* local `domain` of the current script run, or None
    info,         \* local `info` of the current script run, or None
    queries,      \* whois.whois calls made by the current script run
    extractions,  \* extract_domain_from_email calls made by the current run
    resp,         \* what whois.whois did in the current run (return or raise)
    ref,          \* a remembered earlier finished submission (history variable)
    arg,          \* argument of a directly applied function
    ret           \* its result

uiVars == <<email, pc, page, download, domain, info, queries, extractions, resp, ref>>
vars == <<email, pc, page, download, domain, info, queries, extractions, resp, ref, arg, ret>>

(***************************************************************************)
(* Bounds                                                                  *)
(***************************************************************************)
MaxLen == 5       \* longest email drawn for extract_domain_from_email
MaxList == 2      \* longest list-valued WHOIS date field

(***************************************************************************)
(* Python values                                                           *)
(***************************************************************************)
None == [t |-> "None"]
Text(chars) == [t |-> "text", chars |-> chars]
Str(s) == [t |-> "str", s |-> s]
Date(d, m, y) == [t |-> "datetime", d |-> d, m |-> m, y |-> y]
List(items) == [t |-> "list", items |-> items]

\* Python truth value, as used by `if x`, `x or y`, `not x`
Truthy(v) ==
    CASE v.t = "None" -> FALSE
      [] v.t = "text" -> v.chars # <<>>
      [] v.t = "str" -> v.s # ""
      [] v.t = "list" -> v.items # <<>>
      [] OTHER -> TRUE

Pad(n, width) ==
    IF width = 4 /\ n < 10 THEN "000" \o ToString(n)
    ELSE IF width = 4 /\ n < 100 THEN "00" \o ToString(n)
    ELSE IF width = 4 /\ n < 1000 THEN "0" \o ToString(n)
    ELSE IF width = 2 /\ n < 10 THEN "0" \o ToString(n)
    ELSE ToString(n)

\* str(v) and the f-string conversion {v}, for the values the script formats
PyStr(v) ==
    CASE v.t = "None" -> "None"
      [] v.t = "str" -> v.s
      [] v.t = "datetime" ->
            Pad(v.y, 4) \o "-" \o Pad(v.m, 2) \o "-" \o Pad(v.d, 2) \o " 00:00:00"

\* getattr(obj, name, default)
Getattr(obj, name, default) == IF name \in DOMAIN obj THEN obj[name] ELSE default

\* Python `a or b`
Or(a, b) == IF Truthy(a) THEN a ELSE b

(***************************************************************************)
(* str methods                                                             *)
(***************************************************************************)
Whitespace == {" "}

RECURSIVE split(_, _)
split(s, sep) ==
    IF \A i \in 1..Len(s) : s[i] # sep
    THEN <<s>>
    ELSE LET i == CHOOSE k \in 1..Len(s) :
                      s[k] = sep /\ \A j \in 1..(k - 1) : s[j] # sep
         IN  <<SubSeq(s, 1, i - 1)>> \o split(SubSeq(s, i + 1, Len(s)), sep)

RECURSIVE join(_, _)
join(parts, sep) ==
    IF parts = <<>> THEN <<>>
    ELSE IF Len(parts) = 1 THEN parts[1]
    ELSE parts[1] \o sep \o join(Tail(parts), sep)

RECURSIVE lstrip(_, _)
lstrip(s, cs) ==
    IF s # <<>> /\ s[1] \in cs THEN lstrip(Tail(s), cs) ELSE s

RECURSIVE rstrip(_, _)
rstrip(s, cs) ==
    IF s # <<>> /\ s[Len(s)] \in cs THEN rstrip(SubSeq(s, 1, Len(s) - 1), cs) ELSE s

strip(s) == rstrip(lstrip(s, Whitespace), Whitespace)

\* s.rpartition(sep)[-1]: the text after the last sep, or all of s
after_last(s, sep) ==
    IF \A i \in 1..Len(s) : s[i] # sep THEN s
    ELSE LET parts == split(s, sep) IN parts[Len(parts)]

(***************************************************************************)
(* tldextract.extract, as called on line 17: the hostname is cleaned       *)
(* (user info before the last "@" dropped, whitespace and trailing dots    *)
(* stripped), split into labels on ".", and the longest public suffix      *)
(* that ends the label list is the suffix; the label before it is the      *)
(* domain, the labels before that the subdomain.                           *)
(***************************************************************************)
PublicSuffixes == { << <<"com">> >>, << <<"uk">> >>, << <<"co">>, <<"uk">> >> }

lenient_netloc(url) == rstrip(strip(after_last(url, "@")), {"."})

suffix_index(labels) ==
    LET n == Len(labels)
        hits == {i \in 1..n : SubSeq(labels, i, n) \in PublicSuffixes}
    IN  IF hits = {} THEN n
        ELSE (CHOOSE i \in hits : \A j \in hits : i <= j) - 1

tldextract_extract(url) ==
    LET labels == split(lenient_netloc(url), ".")
        n == Len(labels)
        k == suffix_index(labels)
    IN  [subdomain |-> IF k >= 2 THEN join(SubSeq(labels, 1, k - 1), <<".">>) ELSE <<>>,
         domain    |-> IF k >= 1 THEN labels[k] ELSE <<>>,
         suffix    |-> IF k # n THEN join(SubSeq(labels, k + 1, n), <<".">>) ELSE <<>>]

(***************************************************************************)
(* extract_domain_from_email, lines 14-21                                  *)
(***************************************************************************)
\* faulty variant: `_, domain_part = email.split("@")`, which raises unless there
\* are exactly two parts
extract_try_unpack(e) ==
    LET parts == split(e, "@") IN
    IF Len(parts) # 2
    THEN [exc |-> TRUE, candidate |-> None, value |-> None]
    ELSE LET ext == tldextract_extract(parts[2])
             root_domain == IF ext.suffix # <<>>
                            THEN ext.domain \o <<".">> \o ext.suffix
                            ELSE ext.domain
         IN  [exc |-> FALSE, candidate |-> Text(parts[2]), value |-> Text(root_domain)]

\* faulty variant: `email.split("@", 1)[1]`, which keeps everything after the first "@"
extract_try_maxsplit(e) ==
    LET parts == split(e, "@") IN
    IF Len(parts) < 2
    THEN [exc |-> TRUE, candidate |-> None, value |-> None]
    ELSE LET domain_part == join(Tail(parts), <<"@">>)
             ext == tldextract_extract(domain_part)
             root_domain == IF ext.suffix # <<>>
                            THEN ext.domain \o <<".">> \o ext.suffix
                            ELSE ext.domain
         IN  [exc |-> FALSE, candidate |-> Text(domain_part), value |-> Text(root_domain)]

\* the try block, lines 16-19: exc is TRUE when email.split("@")[1] raises
\* IndexError; candidate is the argument handed to tldextract.extract
extract_try(e) ==
    LET parts == split(e, "@") IN
    IF Len(parts) < 2
    THEN [exc |-> TRUE, candidate |-> None, value |-> None]
    ELSE LET domain_part == parts[2]
             ext == tldextract_extract(domain_part)
             root_domain == IF ext.suffix # <<>>
                            THEN ext.domain \o <<".">> \o ext.suffix
                            ELSE ext.domain
         IN  [exc |-> FALSE, candidate |-> Text(domain_part), value |-> Text(root_domain)]

\* faulty variant: the body without its try/except
extract_no_except(e) ==
    LET r == extract_try(e) IN
    [raised |-> r.exc, candidate |-> r.candidate, value |-> r.value]

\* the whole function: `except Exception: return None`
extract_domain_from_email(e) ==
    LET r == extract_try(e) IN
    [raised |-> FALSE, candidate |-> r.candidate,
     value |-> IF r.exc THEN None ELSE r.value]

(***************************************************************************)
(* get_domain_history, lines 24-48.  w is what whois.whois(domain)         *)
(* returned on line 26: a record of the attributes the response has, plus  *)
(* `text`, its string form str(w).                                         *)
(***************************************************************************)
MonthName ==
    <<"January", "February", "March", "April", "May", "June", "July",
      "August", "September", "October", "November", "December">>

\* datetime.strftime("%d %B %Y")
strftime(dt) == Pad(dt.d, 2) \o " " \o MonthName[dt.m] \o " " \o Pad(dt.y, 4)

\* faulty variant: d[-1] instead of d[0]
pick_date_last(d) == IF d.t = "list" THEN d.items[Len(d.items)] ELSE d

\* _pick_date, lines 28-31
pick_date(d) == IF d.t = "list" THEN d.items[1] ELSE d

\* lines 33-35: `_pick_date(w.x) if getattr(w, "x", None) else None`
picked(w, attr) ==
    IF Truthy(Getattr(w, attr, None)) THEN pick_date(w[attr]) ELSE None

\* lines 40-42: `x.strftime("%d %B %Y") if isinstance(x, datetime) else
\* str(x) if x else None`
date_field(v) ==
    IF v.t = "datetime" THEN Str(strftime(v))
    ELSE IF Truthy(v) THEN Str(PyStr(v))
    ELSE None

get_domain_history(dom, w) ==
    LET created == picked(w, "creation_date")
        updated == picked(w, "updated_date")
        expiry  == picked(w, "expiration_date")
    IN  [domain        |-> dom,
         registrar     |-> Getattr(w, "registrar", None),
         creation_date |-> date_field(created),
         updated_date  |-> date_field(updated),
         expiry_date   |-> date_field(expiry),
         name_servers  |-> Or(Getattr(w, "name_servers", List(<<>>)), List(<<>>)).items,
         raw_whois     |-> w.text]

(***************************************************************************)
(* The function applied directly to every short email                      *)
(***************************************************************************)
Alphabet == {"@", ".", " ", "a", "co", "uk"}

RECURSIVE StringsUpTo(_)
StringsUpTo(n) ==
    IF n = 0 THEN {<<>>}
    ELSE LET shorter == StringsUpTo(n - 1)
         IN  shorter \cup {Append(s, c) : s \in {x \in shorter : Len(x) = n - 1}, c \in Alphabet}

Pending == [t |-> "pending"]

UIInit ==
    /\ email = <<>>
    /\ pc = "idle"
    /\ page = <<>>
    /\ download = None
    /\ domain = None
    /\ info = None
    /\ queries = 0
    /\ extractions = 0
    /\ resp = None
    /\ ref = None

ExtractInit ==
    /\ UIInit
    /\ arg \in StringsUpTo(MaxLen)
    /\ ret = Pending

CallExtract ==
    /\ ret = Pending
    /\ ret' = extract_domain_from_email(arg)
    /\ UNCHANGED <<arg, uiVars>>

ExtractNext == CallExtract

SpecExtract == ExtractInit /\ [][ExtractNext]_vars

(***************************************************************************)
(* get_domain_history applied directly to WHOIS responses whose date       *)
(* fields take every shape: missing, None, a string, a datetime, a list    *)
(***************************************************************************)
DateScalars ==
    {None, Str(""), Str("2020-01-01"), Date(15, 1, 2024), Date(14, 8, 1995)}

RECURSIVE ListsUpTo(_)
ListsUpTo(n) ==
    IF n = 0 THEN {<<>>}
    ELSE LET shorter == ListsUpTo(n - 1)
         IN  shorter \cup {Append(s, c) : s \in {x \in shorter : Len(x) = n - 1}, c \in DateScalars}

DateSources == DateScalars \cup {List(items) : items \in ListsUpTo(MaxList)}

DateAttrs == {"creation_date", "updated_date", "expiration_date"}

BaseResponse ==
    [registrar       |-> Str("Example Registrar"),
     creation_date   |-> List(<<Date(2, 3, 2001), Date(4, 5, 2002)>>),
     updated_date    |-> Str("2010-10-10"),
     expiration_date |-> Date(31, 12, 2030),
     name_servers    |-> List(<<"ns1.example.com", "ns2.example.com">>),
     text            |-> <<"Domain Name: EXAMPLE.COM", "\n", "Registrar: Example Registrar">>]

Without(w, attr) == [a \in (DOMAIN w) \ {attr} |-> w[a]]

\* BaseResponse with one date attribute replaced by src, or removed
HistoryInputs ==
    {[attr |-> a, w |-> [BaseResponse EXCEPT ![a] = src]] : a \in DateAttrs, src \in DateSources}
    \cup {[attr |-> a, w |-> Without(BaseResponse, a)] : a \in DateAttrs}

HistoryInit ==
    /\ UIInit
    /\ arg \in HistoryInputs
    /\ ret = Pending

CallHistory ==
    /\ ret = Pending
    /\ ret' = get_domain_history(<<"example", ".", "com">>, arg.w)
    /\ UNCHANGED <<arg, uiVars>>

HistoryNext == CallHistory

SpecHistory == HistoryInit /\ [][HistoryNext]_vars

(***************************************************************************)
(* The script body, lines 52-104.  Streamlit runs the script from the top  *)
(* on every interaction; each run rebuilds the page and has fresh locals.  *)
(* Only the text input's value is kept by the session.  A run is one step, *)
(* except that a run which calls whois.whois waits there (pc = "whois")    *)
(* until the call returns or raises.                                       *)
(***************************************************************************)
Error(body) == [kind |-> "error", body |-> body]
Success(body) == [kind |-> "success", body |-> body]
Subheader(body) == [kind |-> "subheader", body |-> body]
Write(body) == [kind |-> "write", body |-> body]
Code(body) == [kind |-> "code", body |-> body]
Uncaught(body) == [kind |-> "exception", body |-> body]

\* ", ".join(names)
join_names(names) == join([i \in 1..Len(names) |-> <<names[i]>>], <<", ">>)

\* the marker written for a missing value, lines 77-80 (the character U+2014)
EmDash == Str("--")

\* faulty variant: the values are written without `or` and its marker
render_record_no_marker(data) ==
    <<Subheader(<<"Domain History / WHOIS Summary">>),
      Write(<<"**Registrar:**", PyStr(data.registrar)>>),
      Write(<<"**Creation date:**", PyStr(data.creation_date)>>),
      Write(<<"**Last updated:**", PyStr(data.updated_date)>>),
      Write(<<"**Expires on:**", PyStr(data.expiry_date)>>)>>
    \o (IF data.name_servers # <<>>
        THEN <<Write(<<"**Name servers:**">>), Write(join_names(data.name_servers))>>
        ELSE <<>>)
    \o <<Code(data.raw_whois)>>

\* lines 76-88: the results area
render_record(data) ==
    <<Subheader(<<"Domain History / WHOIS Summary">>),
      Write(<<"**Registrar:**", PyStr(Or(data.registrar, EmDash))>>),
      Write(<<"**Creation date:**", PyStr(Or(data.creation_date, EmDash))>>),
      Write(<<"**Last updated:**", PyStr(Or(data.updated_date, EmDash))>>),
      Write(<<"**Expires on:**", PyStr(Or(data.expiry_date, EmDash))>>)>>
    \o (IF data.name_servers # <<>>
        THEN <<Write(<<"**Name servers:**">>), Write(join_names(data.name_servers))>>
        ELSE <<>>)
    \o <<Code(data.raw_whois)>>

\* faulty variant: the line break after the Domain line is missing
report_text_no_break(data) ==
    <<"Domain: ">> \o data.domain
    \o <<"Registrar: ", PyStr(data.registrar), "\n",
         "Creation date: ", PyStr(data.creation_date), "\n",
         "Last updated: ", PyStr(data.updated_date), "\n",
         "Expiry date: ", PyStr(data.expiry_date), "\n",
         "Name servers: ">> \o join_names(data.name_servers)
    \o <<"\n", "\n", "Raw WHOIS:", "\n">> \o data.raw_whois

\* lines 91-99: txt
report_text(data) ==
    <<"Domain: ">> \o data.domain
    \o <<"\n", "Registrar: ", PyStr(data.registrar), "\n",
         "Creation date: ", PyStr(data.creation_date), "\n",
         "Last updated: ", PyStr(data.updated_date), "\n",
         "Expiry date: ", PyStr(data.expiry_date), "\n",
         "Name servers: ">> \o join_names(data.name_servers)
    \o <<"\n", "\n", "Raw WHOIS:", "\n">> \o data.raw_whois

\* line 101: st.download_button
download_button(dom, txt) ==
    [label |-> "Download WHOIS report (.txt)", data |-> txt,
     file_name |-> dom \o <<"_whois.txt">>]

Emails ==
    {<<>>, <<" ">>, <<"alice">>, <<"alice", "@">>,
     <<"alice", "@", "example", ".", "com">>,
     <<" ", "alice", "@", "example", ".", "com", " ">>,
     <<"user", "@", "mail", ".", "example", ".", "co", ".", "uk">>,
     <<"a", "@", "b", "@", "example", ".", "com">>,
     <<"user", "@", "localhost">>}

WhoisText == <<"Domain Name: EXAMPLE.COM", "\n", "Registrar: Example Registrar">>

Responses ==
    {[registrar |-> r, creation_date |-> c, updated_date |-> ux[1],
      expiration_date |-> ux[2], name_servers |-> n, text |-> WhoisText] :
        r \in {None, Str(""), Str("Example Registrar")},
        c \in {None, List(<<Date(14, 8, 1995), Date(15, 1, 2024)>>)},
        ux \in {<<None, None>>, <<None, Date(31, 12, 2030)>>,
                <<Str("2010-10-10"), Date(31, 12, 2030)>>},
        n \in {None, List(<<>>), List(<<"ns1.example.com", "ns2.example.com">>)}}
    \cup {Without(BaseResponse, "registrar"), Without(BaseResponse, "name_servers"),
          [text |-> WhoisText]}

Reasons == {"timed out", "No match for domain"}

\* what a finished submission leaves behind, for comparison with later ones
Finished(e, r, pg, dl) == [email |-> e, resp |-> r, page |-> pg, download |-> dl]

\* history: when a new run replaces the page of a finished submission, that
\* submission may be remembered in ref
Remembered ==
    IF resp # None THEN {ref, Finished(email, resp, page, download)} ELSE {ref}

NoQuery == [kind |-> "none"]
Returns(w) == [kind |-> "return", w |-> w]
Raises(reason) == [kind |-> "raise", reason |-> reason]

Init ==
    /\ UIInit
    /\ arg = None
    /\ ret = None

\* the user commits a new value of the text input: a run with neither button
\* pressed, lines 52-63
SetEmail(e) ==
    /\ pc = "idle"
    /\ e # email
    /\ email' = e
    /\ page' = <<>>
    /\ download' = None
    /\ domain' = None
    /\ info' = None
    /\ queries' = 0
    /\ extractions' = 0
    /\ resp' = None
    /\ ref' \in Remembered
    /\ UNCHANGED <<pc, arg, ret>>

\* "Clear" pressed, lines 60-61: st.experimental_rerun() abandons the run and
\* starts another with neither button pressed; the text input keeps its value
Clear ==
    /\ pc = "idle"
    /\ page' = <<>>
    /\ download' = None
    /\ domain' = None
    /\ info' = None
    /\ queries' = 0
    /\ extractions' = 0
    /\ resp' = None
    /\ ref' \in Remembered
    /\ UNCHANGED <<email, pc, arg, ret>>

\* faulty variant: the `if not domain` test of line 69 is missing
CheckNoDomainTest ==
    /\ pc = "idle"
    /\ download' = None
    /\ info' = None
    /\ ref' \in Remembered
    /\ IF email = <<>>
       THEN /\ page' = <<Error(<<"Please enter an email address.">>)>>
            /\ domain' = None
            /\ extractions' = 0
            /\ queries' = 0
            /\ resp' = NoQuery
            /\ pc' = "idle"
       ELSE LET d == extract_domain_from_email(strip(email)).value IN
            /\ domain' = d
            /\ extractions' = 1
            /\ page' = <<Success(<<"Extracted domain: **">> \o
                                 (IF d = None THEN <<"None">> ELSE d.chars) \o <<"**">>)>>
            /\ queries' = 1
            /\ resp' = None
            /\ pc' = "whois"
    /\ UNCHANGED <<email, arg, ret>>

\* faulty variant: the results are appended to what earlier runs have shown
CheckKeepsPage ==
    /\ pc = "idle"
    /\ download' = None
    /\ info' = None
    /\ ref' \in Remembered
    /\ IF email = <<>>
       THEN /\ page' = page \o <<Error(<<"Please enter an email address.">>)>>
            /\ domain' = None
            /\ extractions' = 0
            /\ queries' = 0
            /\ resp' = NoQuery
            /\ pc' = "idle"
       ELSE LET d == extract_domain_from_email(strip(email)).value IN
            /\ domain' = d
            /\ extractions' = 1
            /\ IF ~Truthy(d)
               THEN /\ page' = page \o <<Error(<<"Could not extract a valid domain from that email.">>)>>
                    /\ queries' = 0
                    /\ resp' = NoQuery
                    /\ pc' = "idle"
               ELSE /\ page' = page \o <<Success(<<"Extracted domain: **">> \o d.chars \o <<"**">>)>>
                    /\ queries' = 1
                    /\ resp' = None
                    /\ pc' = "whois"
    /\ UNCHANGED <<email, arg, ret>>

\* "Check Domain" pressed, lines 63-74, up to the call of whois.whois
Check ==
    /\ pc = "idle"
    /\ download' = None
    /\ info' = None
    /\ ref' \in Remembered
    /\ IF email = <<>>
       THEN /\ page' = <<Error(<<"Please enter an email address.">>)>>
            /\ domain' = None
            /\ extractions' = 0
            /\ queries' = 0
            /\ resp' = NoQuery
            /\ pc' = "idle"
       ELSE LET d == extract_domain_from_email(strip(email)).value IN
            /\ domain' = d
            /\ extractions' = 1
            /\ IF ~Truthy(d)
               THEN /\ page' = <<Error(<<"Could not extract a valid domain from that email.">>)>>
                    /\ queries' = 0
                    /\ resp' = NoQuery
                    /\ pc' = "idle"
                       ELSE /\ page' = <<Success(<<"Extracted domain: **">> \o d.chars \o <<"**">>)>>
                    /\ queries' = 1
                    /\ resp' = None
                    /\ pc' = "whois"
    /\ UNCHANGED <<email, arg, ret>>

\* whois.whois returns w: lines 26-48 and 76-101
WhoisReturn(w) ==
    /\ pc = "whois"
    /\ LET data == get_domain_history(domain.chars, w) IN
       /\ info' = data
       /\ page' = page \o render_record(data)
       /\ download' = download_button(domain.chars, report_text(data))
    /\ resp' = Returns(w)
    /\ pc' = "idle"
    /\ UNCHANGED <<email, domain, queries, extractions, ref, arg, ret>>

\* faulty variant: whois.whois is called outside the try block
WhoisRaiseUncaught(reason) ==
    /\ pc = "whois"
    /\ page' = page \o <<Uncaught(<<reason>>)>>
    /\ resp' = Raises(reason)
    /\ pc' = "idle"
    /\ UNCHANGED <<email, domain, info, download, queries, extractions, ref, arg, ret>>

\* faulty variant: the except block asks whois.whois once more
WhoisRaiseRetry(reason) ==
    /\ pc = "whois"
    /\ queries' = queries + 1
    /\ queries' <= 3
    /\ UNCHANGED <<email, pc, page, domain, info, download, extractions, resp, ref, arg, ret>>

\* whois.whois raises: lines 103-104
WhoisRaise(reason) ==
    /\ pc = "whois"
    /\ page' = page \o <<Error(<<"Error fetching WHOIS info: ", reason>>)>>
    /\ resp' = Raises(reason)
    /\ pc' = "idle"
    /\ UNCHANGED <<email, domain, info, download, queries, extractions, ref, arg, ret>>

Next ==
    \/ \E e \in Emails : SetEmail(e)
    \/ Clear
    \/ Check
    \/ \E w \in Responses : WhoisReturn(w)
    \/ \E reason \in Reasons : WhoisRaise(reason)

Spec == Init /\ [][Next]_vars

\* whois.whois returns or raises
WhoisCompletes ==
    \/ \E w \in Responses : WhoisReturn(w)
    \/ \E reason \in Reasons : WhoisRaise(reason)

LiveSpec == Spec /\ WF_vars(WhoisCompletes)

(***************************************************************************)
(* Properties of extract_domain_from_email (checked under SpecExtract)     *)
(***************************************************************************)
HasAt(s) == \E i \in 1..Len(s) : s[i] = "@"
FirstAt(s) == CHOOSE i \in 1..Len(s) : s[i] = "@" /\ \A j \in 1..(i - 1) : s[j] # "@"
AfterFirstAt(s) == SubSeq(s, FirstAt(s) + 1, Len(s))
UpToAt(s) == IF HasAt(s) THEN SubSeq(s, 1, FirstAt(s) - 1) ELSE s
Returned == ret # Pending

\* C1 (as stated): for every email with at least one "@" the function
\* returns a non-failure result (not None and not a value the caller treats
\* as failure, i.e. a truthy one) that contains no "@".
C1_AsStated ==
    (Returned /\ HasAt(arg)) =>
        /\ ~ret.raised
        /\ ret.value # None
        /\ Truthy(ret.value)
        /\ ~HasAt(ret.value.chars)

\* C1 (amended): for every email with at least one "@" the function returns
\* a string, never None, that contains no "@"; the string is empty (which
\* the caller treats as a failed extraction) exactly when public-suffix
\* parsing finds neither a label nor a suffix in the candidate.
C1_StringWithoutAt ==
    (Returned /\ HasAt(arg)) =>
        /\ ~ret.raised
        /\ ret.value # None
        /\ ~HasAt(ret.value.chars)
        /\ LET ext == tldextract_extract(ret.candidate.chars)
           IN  (ret.value.chars = <<>>) <=> (ext.domain = <<>> /\ ext.suffix = <<>>)

C1_Witness ==
    /\ Returned
    /\ arg = <<"a", "@", "a", ".", "uk">>
    /\ ret.value = Text(<<"a", ".", "uk">>)

\* C2: for every email with no "@" the function returns None and raises
\* nothing to its caller.
C2_NoAtGivesNone ==
    (Returned /\ ~HasAt(arg)) => (ret.value = None /\ ~ret.raised)

C2_Witness ==
    /\ Returned
    /\ ~HasAt(arg)
    /\ arg = <<"a", ".", "co", "uk">>
    /\ ret.value = None

\* C3 (as stated): the candidate handed to public-suffix parsing is
\* everything after the first "@", a second "@" and the text after it
\* included.
C3_AsStated ==
    (Returned /\ HasAt(arg)) => ret.candidate = Text(AfterFirstAt(arg))

\* C3 (amended): the candidate handed to public-suffix parsing is the text
\* between the first "@" and the second "@" (or the end of the email when
\* there is no second one); a second "@" and the text after it are dropped.
C3_CandidateBetweenAts ==
    (Returned /\ HasAt(arg)) =>
        /\ ret.candidate = Text(UpToAt(AfterFirstAt(arg)))
        /\ ~HasAt(ret.candidate.chars)

C3_Witness ==
    /\ Returned
    /\ arg = <<"a", "@", "co", "@">>
    /\ ret.candidate = Text(<<"co">>)

(***************************************************************************)
(* Properties of get_domain_history (checked under SpecHistory)            *)
(***************************************************************************)
FieldOf(attr) == IF attr = "expiration_date" THEN "expiry_date" ELSE attr
Source == Getattr(arg.w, arg.attr, None)
Field == ret[FieldOf(arg.attr)]

\* the field the claim gives a canonical value c
C6_FromCanonical(c) ==
    IF c = None THEN None
    ELSE IF c.t = "datetime" THEN Str(strftime(c))
    ELSE Str(PyStr(c))

\* C6 (as stated): an absent source gives a null field; a sequence is
\* replaced by its first element; a datetime canonical value is formatted
\* "day full-month-name year"; any other present canonical value gives its
\* verbatim string form.
C6_AsStated ==
    Returned =>
        /\ Source = None => Field = None
        /\ (Source.t = "list" /\ Source.items # <<>>) => Field = C6_FromCanonical(Source.items[1])
        /\ Source.t \notin {"list", "None"} => Field = C6_FromCanonical(Source)
        /\ Source = List(<<Date(15, 1, 2024), Date(14, 8, 1995)>>) => Field = Str("15 January 2024")

\* the field the code gives a canonical value c: falsy values count as absent
C6_FromTruthyCanonical(c) ==
    IF c = None \/ c = Str("") THEN None
    ELSE IF c.t = "datetime" THEN Str(strftime(c))
    ELSE Str(PyStr(c))

\* C6 (amended): a source that is absent or empty (missing, None, the empty
\* string, an empty list) gives a null field; a non-empty list is replaced
\* by its first element and the rest is ignored; a datetime canonical value
\* is formatted "day full-month-name year"; any other canonical value gives
\* its verbatim string form when it is non-empty and a null field when it
\* is None or the empty string.
C6_DateNormalization ==
    Returned =>
        /\ Source \in {None, Str(""), List(<<>>)} => Field = None
        /\ (Source.t = "list" /\ Source.items # <<>>) =>
               Field = C6_FromTruthyCanonical(Source.items[1])
        /\ Source.t \notin {"list", "None"} => Field = C6_FromTruthyCanonical(Source)
        /\ Source = List(<<Date(15, 1, 2024), Date(14, 8, 1995)>>) => Field = Str("15 January 2024")
        /\ \A a \in DateAttrs \ {arg.attr} :
               ret[FieldOf(a)] = C6_FromTruthyCanonical(pick_date(BaseResponse[a]))

C6_Witness ==
    /\ Returned
    /\ arg.attr = "expiration_date"
    /\ Source = List(<<Date(15, 1, 2024), Date(14, 8, 1995)>>)
    /\ ret.expiry_date = Str("15 January 2024")

(***************************************************************************)
(* Properties of the script (checked under Spec and LiveSpec)              *)
(***************************************************************************)
RespKind == IF resp = None THEN "norun" ELSE resp.kind
Kinds == {page[i].kind : i \in DOMAIN page}
Shows(elem) == \E i \in DOMAIN page : page[i] = elem

EmptyInputFailure == Shows(Error(<<"Please enter an email address.">>))
ExtractionFailure == Shows(Error(<<"Could not extract a valid domain from that email.">>))
LookupFailure ==
    \E i \in DOMAIN page :
        /\ page[i].kind = "error"
        /\ Head(page[i].body) = "Error fetching WHOIS info: "
RecordShown == Kinds \cap {"subheader", "write", "code"} # {} \/ download # None

\* C4: a WHOIS query is issued only after the input was found non-empty and
\* extraction returned a usable domain; an empty input reports
\* EmptyInputFailure with neither extraction nor lookup; a failed extraction
\* reports ExtractionFailure with no lookup.
C4_QueryOnlyAfterExtraction ==
    /\ queries > 0 =>
          /\ email # <<>>
          /\ extractions = 1
          /\ domain # None
          /\ domain.chars # <<>>
          /\ HasAt(email)
    /\ (RespKind # "norun" /\ email = <<>>) =>
          (EmptyInputFailure /\ extractions = 0 /\ queries = 0 /\ page = <<page[1]>>)
    /\ EmptyInputFailure => (email = <<>> /\ extractions = 0 /\ queries = 0)
    /\ ExtractionFailure => (extractions = 1 /\ queries = 0 /\ ~Truthy(domain))
    /\ (RespKind # "norun" /\ email # <<>> /\ ~Truthy(domain)) =>
          (ExtractionFailure /\ queries = 0 /\ page = <<page[1]>>)

C4_Witness ==
    /\ ExtractionFailure
    /\ email = <<"alice", "@">>
    /\ queries = 0

\* C5: when the WHOIS query raises, the error is caught and reported as a
\* LookupFailure with the reason text; nothing is propagated out of the
\* handler and no record (summary, raw output, download) is shown.
C5_RaiseReported ==
    RespKind = "raise" =>
        /\ pc = "idle"
        /\ page[Len(page)] = Error(<<"Error fetching WHOIS info: ", resp.reason>>)
        /\ Kinds = {"success", "error"}
        /\ ~RecordShown
        /\ info = None

C5_Witness ==
    /\ RespKind = "raise"
    /\ resp.reason = "timed out"
    /\ LookupFailure
    /\ domain = Text(<<"example", ".", "co", ".", "uk">>)

\* the lines of the report
ReportLines == split(download.data, "\n")
\* the response attribute is missing, None or empty
Absent(attr) == ~Truthy(Getattr(resp.w, attr, None))
\* the element of the results area that starts with label, if any
AreaLines(label) == {i \in DOMAIN page : page[i].kind = "write" /\ Head(page[i].body) = label}

ScalarFields ==
    {[attr |-> "registrar", area |-> "**Registrar:**", report |-> "Registrar: ", line |-> 2],
     [attr |-> "creation_date", area |-> "**Creation date:**", report |-> "Creation date: ", line |-> 3],
     [attr |-> "updated_date", area |-> "**Last updated:**", report |-> "Last updated: ", line |-> 4],
     [attr |-> "expiration_date", area |-> "**Expires on:**", report |-> "Expiry date: ", line |-> 5]}

AllFields ==
    ScalarFields \cup
    {[attr |-> "name_servers", area |-> "**Name servers:**", report |-> "Name servers: ", line |-> 6]}

\* C7 (as stated): after a successful query every field (registrar, the
\* three dates, name servers) is rendered in the results area and in the
\* report, with an explicit empty-value marker when it is absent.
C7_AsStated ==
    RespKind = "return" =>
        \A f \in AllFields :
            /\ AreaLines(f.area) # {}
            /\ Head(ReportLines[f.line]) = f.report
            /\ Absent(f.attr) =>
                  /\ \A i \in AreaLines(f.area) : page[i].body = <<f.area, EmDash.s>>
                  /\ Len(ReportLines[f.line]) = 2
                  /\ ReportLines[f.line][2] # ""

\* the response attribute is missing or None
IsNone(attr) == Getattr(resp.w, attr, None) = None

\* C7 (amended): after a successful query the registrar and the three dates
\* are always rendered: with the marker in the results area when missing,
\* None or empty, and with the text "None" in the report when missing or
\* None; the name servers are left out of the results area when absent, and
\* their report line is then empty after its label.
C7_AbsentFields ==
    RespKind = "return" =>
        /\ \A f \in ScalarFields :
              /\ Cardinality(AreaLines(f.area)) = 1
              /\ Len(ReportLines[f.line]) = 2
              /\ Head(ReportLines[f.line]) = f.report
              /\ IsNone(f.attr) <=> ReportLines[f.line][2] = "None"
              /\ \A i \in AreaLines(f.area) :
                    IF Absent(f.attr)
                    THEN /\ page[i].body = <<f.area, EmDash.s>>
                         /\ ReportLines[f.line][2] \in {"None", ""}
                    ELSE /\ page[i].body[2] \notin {EmDash.s, "None", ""}
                         /\ page[i].body[2] = ReportLines[f.line][2]
        /\ Head(ReportLines[6]) = "Name servers: "
        /\ IF Absent("name_servers")
           THEN AreaLines("**Name servers:**") = {} /\ Len(ReportLines[6]) = 1
           ELSE /\ Cardinality(AreaLines("**Name servers:**")) = 1
                /\ Shows(Write(Tail(ReportLines[6])))
                /\ Len(ReportLines[6]) > 1

C7_Witness ==
    /\ RespKind = "return"
    /\ resp.w = [text |-> WhoisText]
    /\ Shows(Write(<<"**Registrar:**", EmDash.s>>))
    /\ AreaLines("**Name servers:**") = {}

\* C8: for every record of a successful lookup, the text after "Domain: " on
\* the first line of the report is the record's domain, and the lines come in
\* the order Domain, Registrar, Creation date, Last updated, Expiry date,
\* Name servers, blank line, Raw WHOIS.
C8_ReportRoundTrip ==
    RespKind = "return" =>
        /\ Head(ReportLines[1]) = "Domain: "
        /\ Tail(ReportLines[1]) = info.domain
        /\ info.domain = domain.chars
        /\ [i \in 2..6 |-> Head(ReportLines[i])] =
              [i \in 2..6 |-> (CHOOSE f \in AllFields : f.line = i).report]
        /\ ReportLines[7] = <<>>
        /\ ReportLines[8] = <<"Raw WHOIS:">>
        /\ join(SubSeq(ReportLines, 9, Len(ReportLines)), <<"\n">>) = info.raw_whois
        /\ download.file_name = info.domain \o <<"_whois.txt">>

C8_Witness ==
    /\ RespKind = "return"
    /\ Tail(ReportLines[1]) = <<"example", ".", "co", ".", "uk">>
    /\ Len(ReportLines) = 10

\* C9: no state is carried between submissions: a finished submission and
\* any earlier finished submission with the same input and the same WHOIS
\* response show the same outcome.
C9_NoCarriedState ==
    (pc = "idle" /\ resp # None /\ ref # None /\ ref.email = email /\ ref.resp = resp) =>
        (ref.page = page /\ ref.download = download)

C9_Witness ==
    /\ pc = "idle"
    /\ RespKind = "raise"
    /\ ref # None
    /\ ref.email = email
    /\ ref.resp = resp
    /\ LookupFailure

ExactlyOneOutcome ==
    Cardinality({o \in {"empty", "extraction", "lookup", "record"} :
        \/ o = "empty" /\ EmptyInputFailure
        \/ o = "extraction" /\ ExtractionFailure
        \/ o = "lookup" /\ LookupFailure
        \/ o = "record" /\ RecordShown}) = 1

\* C10: a submission issues at most one WHOIS query, never a retry, and,
\* provided the WHOIS call returns or raises, ends in exactly one of
\* EmptyInputFailure, ExtractionFailure, LookupFailure or a displayed record.
C10_OneQueryOneOutcome ==
    /\ [](queries <= 1)
    /\ []((pc = "idle" /\ resp # None) => ExactlyOneOutcome)
    /\ [][pc = "whois" => (pc' = "idle" /\ queries' = queries /\ resp' # None)]_vars
    /\ (pc = "whois") ~> (pc = "idle" /\ resp # None /\ ExactlyOneOutcome)

C10_Witness ==
    /\ pc = "idle"
    /\ queries = 1
    /\ RespKind = "return"
    /\ RecordShown
    /\ ~LookupFailure
====
